---- MODULE Spec2Model ----
(***************************************************************************)
(* The commerce state machine of src/machines/commerce-machine.ts, run by  *)
(* an xstate (v4) interpreter: one event is processed to completion at a   *)
(* time; the promise invoked by loadingPrices and the 500ms delayed        *)
(* transition of debouncingQuantityChange are stopped when their state is  *)
(* exited; the interpreter stops when the top-level final state is         *)
(* reached.                                                                *)
(***************************************************************************)
EXTENDS Integers, Sequences, FiniteSets, TLC

\* ------------------------------------------------------------------ bounds

\* CHANGE_QUANTITY events carry a quantity in 1..MaxQuantity.
MaxQuantity == 2

\* At most MaxStale promises the machine does not listen to are pending:
\* fetches whose invocation was stopped and calls of the checkout callback.
MaxStale == 1

\* ------------------------------------------------------------ JS values

\* An absent object / array / number (undefined).
Undefined == [kind |-> "undefined"]

\* An absent string (undefined where a string is expected).
undefined == "<undefined>"

Num(n) == [kind |-> "number", value |-> n]

Coupon(code) == [kind |-> "object", coupon_code |-> code]

Array(items) == [kind |-> "array", items |-> items]

\* An update record that sets no key: the `{}` returned by an assigner.
NoUpdate == [k \in {} |-> Undefined]

\* lodash isEmpty: true for undefined and for every value that is not a
\* collection (numbers included), for arrays of length 0 and for objects
\* without own keys.
isEmpty(v) ==
    CASE v.kind = "undefined" -> TRUE
      [] v.kind = "number"    -> TRUE
      [] v.kind = "array"     -> Len(v.items) = 0
      [] v.kind = "object"    -> FALSE

\* ------------------------------------------------------------ input sets

PriceIds == {"p1", "p2"}

Quantities == 1..MaxQuantity

Plan(id, discounted) == [stripe_price_id |-> id, price_discounted |-> discounted]

\* The `plans` field of the payloads the fetch collaborator may resolve with:
\* absent, well-formed lists, and a list with a plan that has no identifier.
PlansValues ==
    { Undefined,
      Array(<<Plan("p1", Undefined)>>),
      Array(<<Plan("p1", Num(10))>>),
      Array(<<Plan("p1", Num(10)), Plan("p2", Undefined)>>),
      Array(<<Plan(undefined, Num(10))>>) }

PPPValues == {Undefined, Coupon("P1")}

DefaultValues == {Undefined, Coupon("D1")}

AppliedValues == {Undefined, Coupon("D1"), Coupon("OTHER")}

PricingData(plans, ppp, default, applied) ==
    [plans |-> plans,
     available_coupons |-> [ppp |-> ppp, default |-> default],
     applied_coupon |-> applied]

\* Every payload a successful fetch may deliver.
Payloads ==
    { PricingData(pl, ppp, d, a) :
        pl \in PlansValues, ppp \in PPPValues, d \in DefaultValues, a \in AppliedValues }

\* The initial `pricingData: {}`.
EmptyPricingData == PricingData(Undefined, Undefined, Undefined, Undefined)

CouponToApply(code, type) == [kind |-> "object", couponCode |-> code, couponType |-> type]

\* ------------------------------------------------------------ the machine

VARIABLES
    state,          \* the active (atomic) state of the machine
    context,        \* CommerceMachineContext
    staleInFlight,  \* fetches still running whose invocation was stopped
    lastEvent,      \* type of the last event sent to the service, or the
                    \* record that a stopped fetch settled since
    effects,        \* collaborator calls made while processing lastEvent
    burst,          \* quantities of the last (up to two) CHANGE_QUANTITY events
                    \* of the burst being debounced or fetched for, oldest first
    removedPPP,     \* REMOVE_PPP_COUPON was taken and no APPLY_PPP_COUPON since
    checkoutsPending \* calls of onClickCheckout that have not settled yet

vars == <<state, context, staleInFlight, lastEvent, effects, burst, removedPPP, checkoutsPending>>

InitialContext ==
    [pricingData   |-> EmptyPricingData,
     priceId       |-> undefined,
     quantity      |-> 1,
     couponToApply |-> Undefined]

\* Faulty variant: pricingFetchFailed is not declared final.
FinalStatesNone == {}

\* States of type 'final' that are children of the root: the interpreter
\* stops when one is reached and ignores every event sent afterwards.
FinalStates == {"pricingFetchFailed"}

PricesLoadedStates ==
    {"pricesLoaded.withPPPCoupon", "pricesLoaded.withDefaultCoupon",
     "pricesLoaded.withoutCoupon"}

States ==
    {"loadingPrices", "debouncingQuantityChange"} \cup PricesLoadedStates \cup FinalStates

\* A call of the fetch collaborator.
FetchCall(quantity, coupon) == [type |-> "fetch", quantity |-> quantity, coupon |-> coupon]

\* A call of the checkout callback.
CheckoutCall == [type |-> "checkout", quantity |-> 0, coupon |-> undefined]

\* Faulty variant: the coupon code is not passed on.
fetchPricingDataNoCoupon(ctx) == FetchCall(ctx.quantity, undefined)

\* Faulty variant: the quantity of the initial context is passed.
fetchPricingDataInitialQuantity(ctx) ==
    FetchCall(1,
              IF ctx.couponToApply.kind = "undefined"
                  THEN undefined
                  ELSE ctx.couponToApply.couponCode)

\* services.fetchPricingData: the arguments passed to loadPricingData.
fetchPricingData(ctx) ==
    FetchCall(ctx.quantity,
              IF ctx.couponToApply.kind = "undefined"
                  THEN undefined
                  ELSE ctx.couponToApply.couponCode)

\* Faulty variant: the quantity of the event is not assigned.
updateQuantityKeep(ctx, event) == NoUpdate

\* actions.updateQuantity: the update it returns.
updateQuantity(ctx, event) ==
    IF event.type # "CHANGE_QUANTITY"
        THEN NoUpdate
        ELSE [quantity |-> event.quantity]

\* Faulty variant: switching the plan also drops the coupon.
assignPriceIdDropCoupon(ctx, event) ==
    [priceId |-> event.priceId, couponToApply |-> Undefined]

\* The assigner of SWITCH_PRICE: the update it returns.
assignPriceId(ctx, event) == [priceId |-> event.priceId]

\* assign: the context with the keys of the update replaced.
assign(ctx, update) == update @@ ctx

\* pricingPlanSchema (module 'types'): a plan has a string identifier and an
\* optional numeric discounted price.
pricingPlanSchema(plan) ==
    /\ plan.stripe_price_id # undefined
    /\ plan.price_discounted.kind \in {"undefined", "number"}

\* z.object({plans: z.array(pricingPlanSchema)}).safeParse(value)
safeParsePlans(value) ==
    IF /\ value.plans.kind = "array"
       /\ \A i \in 1..Len(value.plans.items) : pricingPlanSchema(value.plans.items[i])
        THEN [success |-> TRUE, data |-> [plans |-> value.plans.items]]
        ELSE [success |-> FALSE, data |-> [plans |-> <<>>]]

\* Array.prototype.find: the first plan with the given identifier, or undefined.
RECURSIVE findPlanFrom(_, _, _)
findPlanFrom(plans, priceId, i) ==
    IF i > Len(plans)
        THEN Undefined
        ELSE IF plans[i].stripe_price_id = priceId
            THEN [kind |-> "object", plan |-> plans[i]]
            ELSE findPlanFrom(plans, priceId, i + 1)

findPlan(plans, priceId) == findPlanFrom(plans, priceId, 1)

\* currentPlan?.price_discounted
priceDiscountedOf(currentPlan) ==
    IF currentPlan.kind = "undefined"
        THEN Undefined
        ELSE currentPlan.plan.price_discounted

\* extractAppliedDefaultCoupon inside assignPricingData
extractAppliedDefaultCoupon(pricingData) ==
    LET availableDefaultCoupon == pricingData.available_coupons.default
        appliedCoupon == pricingData.applied_coupon
    IN  IF isEmpty(availableDefaultCoupon) \/ isEmpty(appliedCoupon)
            THEN NoUpdate
            ELSE IF availableDefaultCoupon.coupon_code = appliedCoupon.coupon_code
                THEN [couponToApply |->
                        CouponToApply(appliedCoupon.coupon_code, "default")]
                ELSE NoUpdate

\* actions.assignPricingData: the update it returns.
assignPricingData(ctx, event) ==
    IF event.type # "done.invoke.fetchPricingDataService"
        THEN NoUpdate
        ELSE LET result == safeParsePlans(ctx.pricingData)
             IN  IF ~result.success
                     THEN [pricingData |-> event.data]
                     ELSE LET currentPlan == findPlan(result.data.plans, ctx.priceId)
                              noCouponToApply == isEmpty(priceDiscountedOf(currentPlan))
                              couponData ==
                                  IF noCouponToApply
                                      THEN [couponToApply |-> Undefined]
                                      ELSE extractAppliedDefaultCoupon(event.data)
                          IN  couponData @@ [pricingData |-> event.data]

\* Faulty variant: the ppp coupon is read without validating the pricing data.
applyPPPCouponUnchecked(ctx) ==
    CouponToApply(IF ctx.pricingData.available_coupons.ppp.kind = "object"
                      THEN ctx.pricingData.available_coupons.ppp.coupon_code
                      ELSE undefined,
                  "ppp")

\* actions.applyPPPCoupon: the new couponToApply (pppCouponSchema.safeParse).
applyPPPCoupon(ctx) ==
    LET success == ctx.pricingData.available_coupons.ppp.kind = "object"
    IN  IF success
            THEN CouponToApply(ctx.pricingData.available_coupons.ppp.coupon_code, "ppp")
            ELSE Undefined

\* Faulty variant: the coupon is not cleared.
removePPPCouponKeep(ctx) == ctx.couponToApply

\* actions.removePPPCoupon: the new couponToApply.
removePPPCoupon(ctx) == Undefined

\* guards
pricingIncludesPPPCoupon(ctx) ==
    /\ ctx.couponToApply.kind = "object"
    /\ ctx.couponToApply.couponType = "ppp"

pricingIncludesDefaultCoupon(ctx) ==
    /\ ctx.couponToApply.kind = "object"
    /\ ctx.couponToApply.couponType = "default"

\* Faulty variant: the guards of the `always` transitions are not consulted.
checkingCouponStatusUnguarded(ctx) == "pricesLoaded.withoutCoupon"

\* pricesLoaded.checkingCouponStatus: the `always` transitions, in order.
checkingCouponStatus(ctx) ==
    IF pricingIncludesPPPCoupon(ctx)
        THEN "pricesLoaded.withPPPCoupon"
        ELSE IF pricingIncludesDefaultCoupon(ctx)
            THEN "pricesLoaded.withDefaultCoupon"
            ELSE "pricesLoaded.withoutCoupon"

\* ------------------------------------------------------------ transitions

\* Faulty variant: the fetch is invoked while the debounce timer runs too.
invokeWhileDebouncing(s, ctx) ==
    IF s \in {"loadingPrices", "debouncingQuantityChange"}
        THEN <<fetchPricingData(ctx)>>
        ELSE <<>>

\* The services started on entry to state s with context ctx: loadingPrices
\* invokes fetchPricingData, no other state invokes anything.
invoke(s, ctx) ==
    IF s = "loadingPrices" THEN <<fetchPricingData(ctx)>> ELSE <<>>

Stopped == state \in FinalStates

\* The service runs the fetch invoked by loadingPrices.
Invoking == state = "loadingPrices"

\* Faulty variant: every event is handled on the root.
declaresOnRoot(s, type) == TRUE

\* The `on` maps: state s, or one of its ancestors, declares a transition
\* for events of the type.
declares(s, type) ==
    CASE type = "CHANGE_QUANTITY"   -> TRUE
      [] type = "SWITCH_PRICE"      -> s \in PricesLoadedStates
      [] type = "CONFIRM_PRICE"     -> s \in PricesLoadedStates
      [] type = "APPLY_PPP_COUPON"  ->
             s \in {"pricesLoaded.withDefaultCoupon", "pricesLoaded.withoutCoupon"}
      [] type = "REMOVE_PPP_COUPON" -> s = "pricesLoaded.withPPPCoupon"

\* An event no active state handles, or sent to a stopped service: nothing
\* but the record of the event changes.
Dropped(type) ==
    /\ lastEvent' = type
    /\ effects' = <<>>
    /\ UNCHANGED <<state, context, staleInFlight, burst, removedPPP, checkoutsPending>>

\* Faulty variant: CHANGE_QUANTITY does not leave loadingPrices.
changeQuantityTargetStay(from) ==
    IF from = "loadingPrices" THEN "loadingPrices" ELSE "debouncingQuantityChange"

\* Target of CHANGE_QUANTITY, declared on the root and on
\* debouncingQuantityChange.
changeQuantityTarget(from) == "debouncingQuantityChange"

\* The record of the burst after a CHANGE_QUANTITY with quantity q taken in
\* state `from`: an event that arrives while the timer runs continues the
\* burst, any other one starts a new burst.
burstAfter(from, b, q) ==
    IF from # "debouncingQuantityChange"
        THEN <<q>>
        ELSE IF Len(b) < 2 THEN Append(b, q) ELSE <<b[2], q>>

Init ==
    /\ state = "loadingPrices"
    /\ context = InitialContext
    /\ staleInFlight = 0
    /\ lastEvent = "xstate.init"
    /\ effects = invoke("loadingPrices", InitialContext)
    /\ burst = <<>>
    /\ removedPPP = FALSE
    /\ checkoutsPending = 0

\* CHANGE_QUANTITY: leaves the active state (stopping the fetch invocation
\* of loadingPrices, or the running timer), runs updateQuantity and enters
\* debouncingQuantityChange, which starts the 500ms timer.
ChangeQuantity(q) ==
    LET event == [type |-> "CHANGE_QUANTITY", quantity |-> q]
        target == changeQuantityTarget(state)
    IN  IF Stopped \/ ~declares(state, event.type)
            THEN Dropped(event.type)
            ELSE /\ Invoking /\ target # state =>
                        staleInFlight + checkoutsPending < MaxStale
                 /\ state' = target
                 /\ context' = assign(context, updateQuantity(context, event))
                 /\ staleInFlight' =
                        IF Invoking /\ target # state
                            THEN staleInFlight + 1
                            ELSE staleInFlight
                 /\ lastEvent' = event.type
                 /\ effects' = invoke(target, context')
                 /\ burst' = burstAfter(state, burst, q)
                 /\ UNCHANGED <<removedPPP, checkoutsPending>>

\* Faulty variant: the delayed transition re-enters debouncingQuantityChange.
debounceTargetSelf == "debouncingQuantityChange"

\* Target of the delayed transition of debouncingQuantityChange.
debounceTarget == "loadingPrices"

\* after 500: the timer of debouncingQuantityChange fires; loadingPrices is
\* entered and invokes fetchPricingData.
DebounceElapsed ==
    /\ state = "debouncingQuantityChange"
    /\ state' = debounceTarget
    /\ lastEvent' = "xstate.after(500)#commerce.debouncingQuantityChange"
    /\ effects' = invoke(debounceTarget, context)
    /\ UNCHANGED <<context, staleInFlight, burst, removedPPP, checkoutsPending>>

\* done.invoke.fetchPricingDataService: the invoked fetch resolved with data.
FetchDone(data) ==
    LET event == [type |-> "done.invoke.fetchPricingDataService", data |-> data]
        assigned == assign(context, assignPricingData(context, event))
    IN  /\ Invoking
        /\ context' = assigned
        /\ state' = checkingCouponStatus(assigned)
        /\ lastEvent' = event.type
        /\ effects' = invoke(state', assigned)
        /\ burst' = <<>>
        /\ UNCHANGED <<staleInFlight, removedPPP, checkoutsPending>>

\* error.platform.fetchPricingDataService: the invoked fetch rejected.
FetchError ==
    /\ Invoking
    /\ state' = "pricingFetchFailed"
    /\ lastEvent' = "error.platform.fetchPricingDataService"
    /\ effects' = invoke("pricingFetchFailed", context)
    /\ burst' = <<>>
    /\ UNCHANGED <<context, staleInFlight, removedPPP, checkoutsPending>>

\* The record left in lastEvent when a stopped invocation's fetch settles.
StoppedFetchSettled == "(stopped) fetchPricingDataService settled"

\* A fetch whose invocation was stopped settles (resolved or rejected): the
\* stopped actor sends no event to the service, and the step calls nothing.
StaleFetchSettles ==
    /\ staleInFlight > 0
    /\ staleInFlight' = staleInFlight - 1
    /\ lastEvent' = StoppedFetchSettled
    /\ effects' = <<>>
    /\ UNCHANGED <<state, context, burst, removedPPP, checkoutsPending>>

\* SWITCH_PRICE, declared on pricesLoaded.
SwitchPrice(p) ==
    LET event == [type |-> "SWITCH_PRICE", priceId |-> p]
    IN  IF ~Stopped /\ declares(state, event.type)
            THEN /\ context' = assign(context, assignPriceId(context, event))
                 /\ lastEvent' = event.type
                 /\ effects' = <<>>
                 /\ UNCHANGED <<state, staleInFlight, burst, removedPPP, checkoutsPending>>
            ELSE Dropped(event.type)

\* Faulty variant: the callback is called a second time.
confirmPriceTwice(ctx, event) == <<CheckoutCall, CheckoutCall>>

\* The action of CONFIRM_PRICE: the calls it makes; it awaits the result of
\* onClickCheckout and does nothing with it.
confirmPrice(ctx, event) == <<CheckoutCall>>

\* CONFIRM_PRICE, declared on pricesLoaded: calls onClickCheckout.
ConfirmPrice ==
    LET event == [type |-> "CONFIRM_PRICE"]
    IN  IF ~Stopped /\ declares(state, event.type)
            THEN /\ staleInFlight + checkoutsPending < MaxStale
                 /\ lastEvent' = event.type
                 /\ effects' = confirmPrice(context, event)
                 /\ checkoutsPending' = checkoutsPending + Len(effects')
                 /\ UNCHANGED <<state, context, staleInFlight, burst, removedPPP>>
            ELSE Dropped(event.type)

\* The records left in lastEvent when a call of onClickCheckout settles.
CheckoutOutcomes == {"onClickCheckout resolved", "onClickCheckout rejected"}

\* The promise returned by onClickCheckout settles: the async action
\* returns or throws into a promise nobody holds; no event is sent to the
\* service.
CheckoutSettles(outcome) ==
    /\ checkoutsPending > 0
    /\ checkoutsPending' = checkoutsPending - 1
    /\ lastEvent' = outcome
    /\ effects' = <<>>
    /\ UNCHANGED <<state, context, staleInFlight, burst, removedPPP>>

\* APPLY_PPP_COUPON, declared on withDefaultCoupon and withoutCoupon.
ApplyPPPCoupon ==
    LET assigned == [context EXCEPT !.couponToApply = applyPPPCoupon(context)]
    IN  IF ~Stopped /\ declares(state, "APPLY_PPP_COUPON")
            THEN /\ context' = assigned
                 /\ state' = "loadingPrices"
                 /\ lastEvent' = "APPLY_PPP_COUPON"
                 /\ effects' = invoke("loadingPrices", assigned)
                 /\ removedPPP' = FALSE
                 /\ UNCHANGED <<staleInFlight, burst, checkoutsPending>>
            ELSE Dropped("APPLY_PPP_COUPON")

\* REMOVE_PPP_COUPON, declared on withPPPCoupon.
RemovePPPCoupon ==
    LET assigned == [context EXCEPT !.couponToApply = removePPPCoupon(context)]
    IN  IF ~Stopped /\ declares(state, "REMOVE_PPP_COUPON")
            THEN /\ context' = assigned
                 /\ state' = "loadingPrices"
                 /\ lastEvent' = "REMOVE_PPP_COUPON"
                 /\ effects' = invoke("loadingPrices", assigned)
                 /\ removedPPP' = TRUE
                 /\ UNCHANGED <<staleInFlight, burst, checkoutsPending>>
            ELSE Dropped("REMOVE_PPP_COUPON")

Next ==
    \/ \E q \in Quantities : ChangeQuantity(q)
    \/ DebounceElapsed
    \/ \E data \in Payloads : FetchDone(data)
    \/ FetchError
    \/ StaleFetchSettles
    \/ \E p \in PriceIds : SwitchPrice(p)
    \/ ConfirmPrice
    \/ \E outcome \in CheckoutOutcomes : CheckoutSettles(outcome)
    \/ ApplyPPPCoupon
    \/ RemovePPPCoupon

Spec == Init /\ [][Next]_vars

\* The payloads the fetch resolves with where progress is checked: one
\* without a plans list and one with discounted and undiscounted plans, both
\* offering the ppp coupon, so that every resting sub-state that Spec reaches
\* is reached.
LivePayloads ==
    { PricingData(Undefined, Coupon("P1"), Undefined, Undefined),
      PricingData(Array(<<Plan("p1", Num(10)), Plan("p2", Undefined)>>),
                  Coupon("P1"), Coupon("D1"), Coupon("D1")) }

\* The fetch the machine listens to settles.
FetchSettles == FetchError \/ \E data \in LivePayloads : FetchDone(data)

\* Next with the payloads of a resolved fetch drawn from LivePayloads.
FairNext ==
    \/ \E q \in Quantities : ChangeQuantity(q)
    \/ DebounceElapsed
    \/ FetchSettles
    \/ StaleFetchSettles
    \/ \E p \in PriceIds : SwitchPrice(p)
    \/ ConfirmPrice
    \/ \E outcome \in CheckoutOutcomes : CheckoutSettles(outcome)
    \/ ApplyPPPCoupon
    \/ RemovePPPCoupon

\* The timer of debouncingQuantityChange fires when it is not restarted for
\* 500ms, and the fetch the machine listens to settles.
FairSpec ==
    /\ Init
    /\ [][FairNext]_vars
    /\ WF_vars(DebounceElapsed)
    /\ WF_vars(FetchSettles)

TypeOK ==
    /\ state \in States
    /\ context.pricingData \in Payloads \cup {EmptyPricingData}
    /\ context.priceId \in PriceIds \cup {undefined}
    /\ context.quantity \in Quantities
    /\ staleInFlight \in 0..MaxStale
    /\ Len(effects) <= 1
    /\ checkoutsPending \in 0..MaxStale
    /\ staleInFlight + checkoutsPending <= MaxStale

\* ------------------------------------------------------------ properties

Done == "done.invoke.fetchPricingDataService"

\* The payload lists the plan with the given identifier, with a discounted price.
SelectedPlanDiscounted(pricingData, priceId) ==
    /\ safeParsePlans(pricingData).success
    /\ priceDiscountedOf(findPlan(pricingData.plans.items, priceId)).kind = "number"

\* The payload lists the plan with the given identifier, without a discounted price.
SelectedPlanNotDiscounted(pricingData, priceId) ==
    /\ safeParsePlans(pricingData).success
    /\ findPlan(pricingData.plans.items, priceId).kind = "object"
    /\ priceDiscountedOf(findPlan(pricingData.plans.items, priceId)).kind = "undefined"

\* The default coupon of the payload is available and is the applied one.
DefaultCouponApplied(pricingData) ==
    /\ pricingData.available_coupons.default.kind = "object"
    /\ pricingData.applied_coupon.kind = "object"
    /\ pricingData.available_coupons.default.coupon_code =
           pricingData.applied_coupon.coupon_code

PPPCouponAvailable(pricingData) == pricingData.available_coupons.ppp.kind = "object"

AcceptsApplyPPP(s) ==
    s \in {"pricesLoaded.withDefaultCoupon", "pricesLoaded.withoutCoupon"}

\* C1: during a burst of CHANGE_QUANTITY events, each arriving while the
\* debounce timer of the previous one runs, no fetch is issued; when the
\* timer fires the machine enters loadingPrices and issues exactly one
\* fetch, with the quantity of the last event of the burst.
C1_OneFetchPerBurst ==
    [][/\ state' = "debouncingQuantityChange" => effects' = <<>>
       /\ (state = "debouncingQuantityChange" /\ state' # "debouncingQuantityChange") =>
              /\ state' = "loadingPrices"
              /\ Len(burst) > 0
              /\ Len(effects') = 1
              /\ effects'[1].type = "fetch"
              /\ effects'[1].quantity = burst[Len(burst)]]_vars

\* A burst of two events with different quantities was followed by the
\* timer, and the fetch carries the second quantity.
C1_Witness ==
    /\ state = "loadingPrices"
    /\ lastEvent = "xstate.after(500)#commerce.debouncingQuantityChange"
    /\ burst = <<1, 2>>
    /\ effects = <<FetchCall(2, undefined)>>

\* C2: a rejected fetch takes loadingPrices to pricingFetchFailed, and once
\* in pricingFetchFailed no event changes the state or the context and no
\* fetch is issued.
C2_FailedIsTerminal ==
    [][/\ FetchError => state' = "pricingFetchFailed"
       /\ state = "pricingFetchFailed" =>
              /\ state' = "pricingFetchFailed"
              /\ context' = context
              /\ effects' = <<>>]_vars

\* A CHANGE_QUANTITY event was sent after the failure and the machine is
\* still in pricingFetchFailed.
C2_Witness ==
    /\ state = "pricingFetchFailed"
    /\ lastEvent = "CHANGE_QUANTITY"

\* C3 as claimed: from every state, pricingFetchFailed included, a
\* CHANGE_QUANTITY event moves the machine to debouncingQuantityChange and
\* sets context.quantity to the quantity of the event.
C3_AcceptedFromEveryState ==
    [][\A q \in Quantities :
          ChangeQuantity(q) =>
              /\ state' = "debouncingQuantityChange"
              /\ context'.quantity = q]_vars

\* C3 as amended: from every state but pricingFetchFailed a CHANGE_QUANTITY
\* event moves the machine to debouncingQuantityChange and sets
\* context.quantity to the quantity of the event; in pricingFetchFailed the
\* event is ignored.
C3_AcceptedUnlessFailed ==
    [][\A q \in Quantities :
          ChangeQuantity(q) =>
              IF state = "pricingFetchFailed"
                  THEN state' = state /\ context' = context
                  ELSE /\ state' = "debouncingQuantityChange"
                       /\ context'.quantity = q]_vars

\* A CHANGE_QUANTITY event taken with prices loaded started a burst.
C3_Witness ==
    /\ state = "debouncingQuantityChange"
    /\ lastEvent = "CHANGE_QUANTITY"
    /\ burst = <<2>>
    /\ context.quantity = 2
    /\ context.pricingData # EmptyPricingData

\* C4: right after a successful fetch whose payload lists the selected plan
\* with a discounted price and whose available default coupon is the applied
\* coupon, couponToApply is that coupon with type 'default' and the machine
\* is in pricesLoaded.withDefaultCoupon.
C4_DefaultCouponInferred ==
    ( /\ lastEvent = Done
      /\ SelectedPlanDiscounted(context.pricingData, context.priceId)
      /\ DefaultCouponApplied(context.pricingData) )
    => /\ context.couponToApply =
              CouponToApply(context.pricingData.applied_coupon.coupon_code, "default")
       /\ state = "pricesLoaded.withDefaultCoupon"

\* C5: a successful fetch whose payload lists the selected plan with a
\* discounted price, and whose default coupon is not inferred, leaves
\* couponToApply as it was: unset (withoutCoupon) or the PPP coupon
\* (withPPPCoupon).
C5_CouponKeptWithoutInference ==
    [][\A data \in Payloads :
          ( /\ FetchDone(data)
            /\ SelectedPlanDiscounted(data, context.priceId)
            /\ ~DefaultCouponApplied(data) )
          => /\ context'.couponToApply = context.couponToApply
             /\ state' = checkingCouponStatus(context)]_vars

\* C6: a successful fetch whose payload lists the selected plan without a
\* discounted price leaves couponToApply undefined.
C6_NoDiscountNoCoupon ==
    [][\A data \in Payloads :
          (FetchDone(data) /\ SelectedPlanNotDiscounted(data, context.priceId))
          => context'.couponToApply = Undefined]_vars

\* The coupon the reconciliation of section 4.2 yields for a valid payload.
ReconciledCoupon(data, priceId, coupon) ==
    IF ~SelectedPlanDiscounted(data, priceId)
        THEN Undefined
        ELSE IF DefaultCouponApplied(data)
            THEN CouponToApply(data.applied_coupon.coupon_code, "default")
            ELSE coupon

\* C7: a successful fetch whose payload has no valid plans list still leads
\* to pricesLoaded, stores the payload and leaves couponToApply as it was; a
\* payload with a valid plans list is reconciled (discount check, then
\* default-coupon inference).
C7_ValidationOfPayload ==
    [][\A data \in Payloads :
          FetchDone(data) =>
              /\ state' \in PricesLoadedStates
              /\ context'.pricingData = data
              /\ context'.couponToApply =
                     IF safeParsePlans(data).success
                         THEN ReconciledCoupon(data, context.priceId, context.couponToApply)
                         ELSE context.couponToApply]_vars

\* C8: APPLY_PPP_COUPON taken in withDefaultCoupon or withoutCoupon while the
\* pricing data lists a ppp coupon sets couponToApply to that coupon with
\* type 'ppp', enters loadingPrices and issues exactly one fetch, carrying
\* the ppp coupon code.
C8_ApplyPPPCouponRefetches ==
    [][( /\ ApplyPPPCoupon
         /\ AcceptsApplyPPP(state)
         /\ PPPCouponAvailable(context.pricingData) )
       => /\ context'.couponToApply =
                 CouponToApply(context.pricingData.available_coupons.ppp.coupon_code, "ppp")
          /\ state' = "loadingPrices"
          /\ effects' =
                 <<FetchCall(context.quantity,
                             context.pricingData.available_coupons.ppp.coupon_code)>>]_vars

C8_Witness ==
    /\ state = "loadingPrices"
    /\ lastEvent = "APPLY_PPP_COUPON"
    /\ context.couponToApply = CouponToApply("P1", "ppp")
    /\ effects = <<FetchCall(context.quantity, "P1")>>

\* C9: APPLY_PPP_COUPON received while the pricing data lists no ppp coupon
\* does not change couponToApply, which is undefined after the event where
\* the event is handled, and never takes the machine to pricingFetchFailed.
C9_ApplyWithoutPPPIsNoOp ==
    [][( /\ ApplyPPPCoupon
         /\ ~PPPCouponAvailable(context.pricingData) )
       => /\ context'.couponToApply = context.couponToApply
          /\ AcceptsApplyPPP(state) =>
                 /\ context'.couponToApply = Undefined
                 /\ state' = "loadingPrices"
          /\ state # "pricingFetchFailed" => state' # "pricingFetchFailed"]_vars

\* APPLY_PPP_COUPON was handled with no ppp coupon listed.
C9_Witness ==
    /\ state = "loadingPrices"
    /\ lastEvent = "APPLY_PPP_COUPON"
    /\ ~PPPCouponAvailable(context.pricingData)
    /\ context.couponToApply = Undefined
    /\ effects = <<FetchCall(context.quantity, undefined)>>

\* C10: REMOVE_PPP_COUPON taken in withPPPCoupon clears couponToApply, enters
\* loadingPrices and issues a fetch without coupon code; from then on the
\* machine is not in withPPPCoupon until an APPLY_PPP_COUPON event is taken.
C10_RemovePPPCoupon ==
    [][/\ (RemovePPPCoupon /\ state = "pricesLoaded.withPPPCoupon") =>
              /\ context'.couponToApply = Undefined
              /\ state' = "loadingPrices"
              /\ effects' = <<FetchCall(context.quantity, undefined)>>
       /\ removedPPP' => state' # "pricesLoaded.withPPPCoupon"]_vars

\* The fetch issued by the removal succeeded with a payload that still lists
\* the ppp coupon, and the coupon status was re-evaluated.
C10_Witness ==
    /\ removedPPP
    /\ lastEvent = Done
    /\ state = "pricesLoaded.withoutCoupon"
    /\ PPPCouponAvailable(context.pricingData)

\* The coupon is absent, or listed under its type in the pricing data: a
\* 'ppp' coupon is the available ppp coupon, a 'default' coupon is the
\* available default coupon and the applied coupon.
CouponListed(coupon, pricingData) ==
    \/ coupon.kind = "undefined"
    \/ /\ coupon.couponType = "ppp"
       /\ pricingData.available_coupons.ppp.kind = "object"
       /\ pricingData.available_coupons.ppp.coupon_code = coupon.couponCode
    \/ /\ coupon.couponType = "default"
       /\ pricingData.available_coupons.default.kind = "object"
       /\ pricingData.available_coupons.default.coupon_code = coupon.couponCode
       /\ pricingData.applied_coupon.kind = "object"
       /\ pricingData.applied_coupon.coupon_code = coupon.couponCode

\* C11: in every reachable state couponToApply, when present, is a coupon
\* listed under its type in the pricing data of the context, also after a
\* refetch has replaced the pricing data.
C11_CouponIsListed == CouponListed(context.couponToApply, context.pricingData)

\* C12: in every reachable state with prices loaded, if the pricing data
\* lists the selected plan without a discounted price then couponToApply is
\* undefined.
C12_NoDiscountNoCouponAlways ==
    ( /\ state \in PricesLoadedStates
      /\ SelectedPlanNotDiscounted(context.pricingData, context.priceId) )
    => context.couponToApply = Undefined

\* C13 as stated: at most one pricing fetch is in flight at any time, the
\* fetch the machine listens to and the fetches of invocations it stopped
\* counted together.
C13_AtMostOneInFlight ==
    staleInFlight + (IF Invoking THEN 1 ELSE 0) <= 1

\* C13, amended: a step starts a fetch exactly when it enters loadingPrices
\* from another state, so the machine listens to one fetch at a time; a
\* fetch stops being listened to only when CHANGE_QUANTITY leaves
\* loadingPrices, and it stays in flight after that.
C13_FetchOnlyOnEntry ==
    [][/\ (Len(effects') = 1 /\ effects'[1].type = "fetch")
              <=> (state # "loadingPrices" /\ state' = "loadingPrices")
       /\ staleInFlight' > staleInFlight =>
              /\ state = "loadingPrices"
              /\ state' = "debouncingQuantityChange"
              /\ lastEvent' = "CHANGE_QUANTITY"
              /\ staleInFlight' = staleInFlight + 1]_vars

\* The timer started a new fetch while the fetch of the invocation stopped
\* by CHANGE_QUANTITY is still in flight.
C13_Witness ==
    /\ state = "loadingPrices"
    /\ lastEvent = "xstate.after(500)#commerce.debouncingQuantityChange"
    /\ staleInFlight = 1
    /\ effects = <<FetchCall(2, undefined)>>

\* C14 as stated: when a fetch whose loadingPrices state was left by
\* CHANGE_QUANTITY completes, its result is applied through the normal
\* transitions, to pricesLoaded on success and pricingFetchFailed on failure.
C14_StaleResultApplied ==
    [][staleInFlight' < staleInFlight =>
          /\ lastEvent' \in {Done, "error.platform.fetchPricingDataService"}
          /\ state' \in PricesLoadedStates \cup {"pricingFetchFailed"}]_vars

\* C14, amended: the fetch in flight when CHANGE_QUANTITY leaves
\* loadingPrices is not aborted, it stays in flight; when it completes, no
\* event reaches the machine: state and context are unchanged and nothing
\* is called.
C14_StaleResultDiscarded ==
    [][/\ \A q \in Quantities :
              (ChangeQuantity(q) /\ state = "loadingPrices") =>
                  /\ state' = "debouncingQuantityChange"
                  /\ staleInFlight' = staleInFlight + 1
       /\ staleInFlight' < staleInFlight =>
              /\ state' = state
              /\ context' = context
              /\ effects' = <<>>
              /\ lastEvent' = StoppedFetchSettled]_vars

\* The initial fetch was left by CHANGE_QUANTITY and has completed while the
\* timer runs: the machine still debounces, with the pricing data it had.
C14_Witness ==
    /\ state = "debouncingQuantityChange"
    /\ lastEvent = StoppedFetchSettled
    /\ staleInFlight = 0
    /\ context.quantity = 2
    /\ context.pricingData = EmptyPricingData

\* C15: whenever the machine rests in a sub-state of pricesLoaded, the
\* sub-state agrees with couponToApply: withPPPCoupon exactly when its type
\* is 'ppp', withDefaultCoupon exactly when it is 'default', withoutCoupon
\* exactly when it is undefined; the machine never rests in
\* checkingCouponStatus.
C15_SubStateAgreesWithCoupon ==
    /\ state # "pricesLoaded.checkingCouponStatus"
    /\ state \in PricesLoadedStates =>
          /\ state = "pricesLoaded.withPPPCoupon" <=>
                 ( /\ context.couponToApply.kind = "object"
                   /\ context.couponToApply.couponType = "ppp" )
          /\ state = "pricesLoaded.withDefaultCoupon" <=>
                 ( /\ context.couponToApply.kind = "object"
                   /\ context.couponToApply.couponType = "default" )
          /\ state = "pricesLoaded.withoutCoupon" <=>
                 context.couponToApply = Undefined

\* A fetch resolved while the ppp coupon was applied: the machine rests in
\* withPPPCoupon.
C15_Witness ==
    /\ state = "pricesLoaded.withPPPCoupon"
    /\ lastEvent = Done
    /\ context.couponToApply = CouponToApply("P1", "ppp")

\* C16: every fetch is issued on entry to loadingPrices with the arguments
\* taken from the context at that moment: the quantity of the context, and
\* the code of couponToApply when it is present, no code otherwise. The
\* initial fetch has quantity 1 and no coupon code.
C16_FetchArgumentsFromContext ==
    /\ effects = <<FetchCall(1, undefined)>>
    /\ [][(state # "loadingPrices" /\ state' = "loadingPrices") =>
              effects' =
                  << FetchCall(context'.quantity,
                               IF context'.couponToApply = Undefined
                                   THEN undefined
                                   ELSE context'.couponToApply.couponCode) >>]_vars

\* The refetch after a debounce in withPPPCoupon carries the new quantity
\* and the code of the applied coupon.
C16_Witness ==
    /\ state = "loadingPrices"
    /\ lastEvent = "xstate.after(500)#commerce.debouncingQuantityChange"
    /\ context.quantity = 2
    /\ context.couponToApply = CouponToApply("P1", "ppp")
    /\ effects = <<FetchCall(2, "P1")>>

\* C17: a SWITCH_PRICE event received in a resting sub-state of pricesLoaded
\* sets priceId to the priceId of the event and changes nothing else: the
\* sub-state, pricingData, quantity and couponToApply are unchanged and no
\* fetch is issued.
C17_SwitchPriceOnlySetsPriceId ==
    [][\A p \in PriceIds :
          (SwitchPrice(p) /\ state \in PricesLoadedStates) =>
              /\ context'.priceId = p
              /\ state' = state
              /\ context'.pricingData = context.pricingData
              /\ context'.quantity = context.quantity
              /\ context'.couponToApply = context.couponToApply
              /\ effects' = <<>>]_vars

\* The plan was switched to p2 in withPPPCoupon; the coupon is still there.
C17_Witness ==
    /\ state = "pricesLoaded.withPPPCoupon"
    /\ lastEvent = "SWITCH_PRICE"
    /\ context.priceId = "p2"
    /\ context.couponToApply = CouponToApply("P1", "ppp")

\* C18: a CONFIRM_PRICE event received in a resting sub-state of pricesLoaded
\* calls the checkout callback once and leaves the state and the whole
\* context unchanged; when the callback later resolves or rejects, no event
\* is delivered: state and context are unchanged and nothing is called.
C18_ConfirmPriceCallsCheckoutOnce ==
    [][/\ (ConfirmPrice /\ state \in PricesLoadedStates) =>
              /\ effects' = <<CheckoutCall>>
              /\ checkoutsPending' = checkoutsPending + 1
              /\ state' = state
              /\ context' = context
       /\ checkoutsPending' < checkoutsPending =>
              /\ lastEvent' \in CheckoutOutcomes
              /\ state' = state
              /\ context' = context
              /\ effects' = <<>>]_vars

\* The callback called in withPPPCoupon has rejected; the machine rests
\* where it was.
C18_Witness ==
    /\ state = "pricesLoaded.withPPPCoupon"
    /\ lastEvent = "onClickCheckout rejected"
    /\ checkoutsPending = 0
    /\ context.couponToApply = CouponToApply("P1", "ppp")

\* C19: if from some point on no CHANGE_QUANTITY event arrives, then every
\* stay in debouncingQuantityChange is followed by loadingPrices, and every
\* stay in loadingPrices by a resting sub-state of pricesLoaded or by
\* pricingFetchFailed: the machine remains forever in neither.
C19_DebounceLeadsToResult ==
    (<>[][\A q \in Quantities : ~ChangeQuantity(q)]_vars) =>
        /\ (state = "debouncingQuantityChange") ~> (state = "loadingPrices")
        /\ (state = "loadingPrices") ~>
               (state \in PricesLoadedStates \/ state = "pricingFetchFailed")

\* The fetch started after a debounce has resolved: the machine rests in
\* pricesLoaded with the debounced quantity.
C19_Witness ==
    /\ state = "pricesLoaded.withoutCoupon"
    /\ lastEvent = Done
    /\ context.quantity = 2
    /\ staleInFlight = 0

\* C20: events are acted on only in the states that declare them.
\* SWITCH_PRICE and CONFIRM_PRICE outside pricesLoaded, APPLY_PPP_COUPON
\* outside withDefaultCoupon and withoutCoupon, and REMOVE_PPP_COUPON outside
\* withPPPCoupon leave the state and the whole context unchanged, and
\* nothing is called.
C20_UndeclaredEventsDropped ==
    [][( \/ /\ lastEvent' \in {"SWITCH_PRICE", "CONFIRM_PRICE"}
             /\ state \notin PricesLoadedStates
         \/ /\ lastEvent' = "APPLY_PPP_COUPON"
             /\ state \notin {"pricesLoaded.withDefaultCoupon",
                               "pricesLoaded.withoutCoupon"}
         \/ /\ lastEvent' = "REMOVE_PPP_COUPON"
             /\ state # "pricesLoaded.withPPPCoupon" )
       => /\ state' = state
          /\ context' = context
          /\ effects' = <<>>]_vars

\* SWITCH_PRICE was sent while the timer ran before any plan was selected:
\* no plan is selected.
C20_Witness ==
    /\ state = "debouncingQuantityChange"
    /\ lastEvent = "SWITCH_PRICE"
    /\ context.priceId = undefined
    /\ effects = <<>>

====
